---- MODULE Spec2Model ----
(***************************************************************************)
(* A model of the lottie runtime core:                                     *)
(*   - Timeline::new (crates/core/src/timeline.rs): the breadth-first      *)
(*     expansion of a document into staged layers;                         *)
(*   - StyledShapeIter::next (crates/core/src/layer/shape.rs);             *)
(*   - the LayerContent decoder (crates/ast/src/helpers.rs).               *)
(* Option<T> is a sequence of length 0 (None) or 1 (Some(x)).  f32 values  *)
(* of z-indices are [m, e] with a 24-bit significand; frames are integers.  *)
(***************************************************************************)
EXTENDS Integers, Sequences, FiniteSets, TLC

VARIABLES
    model,          \* the decoded document handed to Timeline::new
    fontdb,         \* the FontDB handed to Timeline::new: what it holds for each family
    layers,         \* the work queue (VecDeque<LayerInfo>)
    store,          \* timeline.store: staged layers, the Id is the position
    start_frame,    \* timeline.start_frame
    end_frame,      \* timeline.end_frame
    previous,       \* Option<Id>: the staged layer inserted last
    parent_maps,    \* heap of the shared Rc<RefCell<HashMap<u32, Id>>>
    standby_maps,   \* heap of the shared Rc<RefCell<HashMap<u32, Vec<Id>>>>
    pc,             \* position of Timeline::new
    skipped,        \* history: queue entries dropped by `continue`
    shapes,         \* StyledShapeIter.shapes
    shape_index,    \* StyledShapeIter.shape_index (0-based)
    stroke_index,   \* StyledShapeIter.stroke_index (0-based)
    emitted,        \* history: the items next() has returned so far
    exhausted,      \* history: the last call of next() returned None
    frames,         \* whole activations of next() its callers leave room for on the stack
    overflowed,     \* a call of next() ran out of stack: the process was aborted
    wire,           \* the JSON value handed to the LayerContent decoder
    decoded,        \* what the decoder gave back
    call,           \* a call of a helper function: its name and its argument
    ret             \* what the call returned

timeline_vars == <<model, fontdb, layers, store, start_frame, end_frame, previous, parent_maps, standby_maps, pc, skipped>>

shape_vars == <<shapes, shape_index, stroke_index, emitted, exhausted, frames, overflowed>>

decoder_vars == <<wire, decoded>>

call_vars == <<call, ret>>

vars == <<timeline_vars, shape_vars, decoder_vars, call_vars>>

None == <<>>
Some(x) == <<x>>
Unwrap(o) == o[1]

\* ------------------------------------------------------------------ bounds
MaxTop == 2
MaxAssetLayers == 3
MaxShapes == 5
MaxTy == 7
MaxKeyframes == 2
MaxVerts == 2
MaxPoints == 5
MaxDepth == 151

\* the most activations of next() a caller that leaves room for few leaves room for
MaxFrames == 3

\* ------------------------------------------------------------ f32 arithmetic
\* A non-negative finite f32 is [m, e], the value m * 2^e with a 24-bit significand
\* 2^23 <= m < 2^24, or zero [0, 0].  Every operation rounds its exact result to the
\* nearest f32, ties to the even significand, as the hardware does; a subnormal is
\* written with the same normalised [m, e], its low bits zero.  A result of 2^128 or
\* more is infinity, and the operations with no value (inf - inf, 0 * inf, 0 / 0,
\* inf / inf, any of them on a NaN) give NaN.
F32(m, e) == [m |-> m, e |-> e]

\* f32::INFINITY, written as the 2^128 the largest finite f32 lies under
Infinity == F32(2^24, 104)

\* f32::NAN
NaN == F32(0 - 1, 0)

\* the number of binary digits of a
RECURSIVE BitLen(_)
BitLen(a) == IF a = 0 THEN 0 ELSE 1 + BitLen(a \div 2)

\* a * 2^e with a < 2^24, written with a 24-bit significand
F32Normal(a, e) == IF a = 0 THEN F32(0, 0) ELSE F32(a * 2^(24 - BitLen(a)), e - (24 - BitLen(a)))

\* the f32 nearest to a * 2^e (plus a non-zero rest below the last bit of a when
\* sticky), for 0 <= a < 2^31; with sticky, a carries at least two bits beyond 24.
\* The last bit kept is the 24th significant one, and never below 2^-149: under
\* 2^-126 the result is a subnormal (fewer significant bits) or 0.0.
F32Round(a, e, sticky) ==
    LET s == IF BitLen(a) - 24 >= (0 - 149) - e THEN BitLen(a) - 24 ELSE (0 - 149) - e
        rounded == IF a = 0 THEN F32(0, 0)
                   ELSE IF s <= 0 THEN F32Normal(a, e)
                   ELSE IF s >= 32 THEN F32(0, 0)
                   ELSE LET q == IF s = 31 THEN 0 ELSE a \div 2^s
                            r == IF s = 31 THEN a ELSE a % 2^s
                            half == 2^(s - 1)
                            up == r > half \/ (r = half /\ (sticky \/ q % 2 = 1))
                        IN  IF ~up THEN F32Normal(q, e + s)
                            ELSE IF q + 1 = 2^24 THEN F32(2^23, e + s + 1)
                            ELSE F32Normal(q + 1, e + s)
    IN  IF rounded.e > 104 THEN Infinity ELSE rounded

\* `index as f32` for a usize below 2^31
F32FromInt(k) == F32Round(k, 0, FALSE)

\* the f32 literals 1.0 and 0.5
One == F32(2^23, 0 - 23)

Half == F32(2^23, 0 - 24)

\* x + y: the smaller operand is shifted under three guard bits of the larger one
F32Add(x, y) ==
    IF x = NaN \/ y = NaN THEN NaN
    ELSE IF x = Infinity \/ y = Infinity THEN Infinity
    ELSE IF x.m = 0 THEN y
    ELSE IF y.m = 0 THEN x
    ELSE LET hi == IF x.e >= y.e THEN x ELSE y
             lo == IF x.e >= y.e THEN y ELSE x
             d == hi.e - lo.e
             low == IF d >= 27 THEN 0 ELSE (lo.m * 8) \div 2^d
             sticky == IF d >= 27 THEN TRUE ELSE (lo.m * 8) % 2^d # 0
         IN  F32Round(hi.m * 8 + low, hi.e - 3, sticky)

\* x * y: the 48-bit product of the significands from 12-bit halves
F32Mul(x, y) ==
    IF x = NaN \/ y = NaN THEN NaN
    ELSE IF x = Infinity \/ y = Infinity THEN (IF x.m = 0 \/ y.m = 0 THEN NaN ELSE Infinity)
    ELSE IF x.m = 0 \/ y.m = 0 THEN F32(0, 0)
    ELSE LET a1 == x.m \div 4096
             b1 == x.m % 4096
             a2 == y.m \div 4096
             b2 == y.m % 4096
             mid == a1 * b2 + a2 * b1
             lo0 == b1 * b2 + (mid % 4096) * 4096
             lo == lo0 % 2^24
             hi == a1 * a2 + mid \div 4096 + lo0 \div 2^24
         IN  F32Round(hi * 64 + lo \div 2^18, x.e + y.e + 18, lo % 2^18 # 0)

\* long division: k more quotient bits of r / d appended to q
RECURSIVE DivBits(_, _, _, _)
DivBits(q, r, d, k) ==
    IF k = 0 THEN [q |-> q, r |-> r]
    ELSE IF 2 * r >= d THEN DivBits(2 * q + 1, 2 * r - d, d, k - 1)
    ELSE DivBits(2 * q, 2 * r, d, k - 1)

\* x / y: 26 quotient bits beyond the integer part, then the rounding
F32Div(x, y) ==
    IF x = NaN \/ y = NaN THEN NaN
    ELSE IF y.m = 0 THEN (IF x.m = 0 THEN NaN ELSE Infinity)
    ELSE IF x = Infinity THEN (IF y = Infinity THEN NaN ELSE Infinity)
    ELSE IF y = Infinity THEN F32(0, 0)
    ELSE IF x.m = 0 THEN F32(0, 0)
    ELSE LET qr == DivBits(x.m \div y.m, x.m % y.m, y.m, 26)
         IN  F32Round(qr.q, x.e - y.e - 26, qr.r # 0)

\* x < y
F32Less(x, y) ==
    IF x = NaN \/ y = NaN THEN FALSE
    ELSE IF y.m = 0 THEN FALSE
    ELSE IF x.m = 0 THEN TRUE
    ELSE x.e < y.e \/ (x.e = y.e /\ x.m < y.m)

\* x - y for y <= x: y is shifted under three guard bits of x, and what is cut off
\* y borrows one from the last guard bit
F32Sub(x, y) ==
    IF x = NaN \/ y = NaN THEN NaN
    ELSE IF x = Infinity THEN (IF y = Infinity THEN NaN ELSE Infinity)
    ELSE IF y.m = 0 THEN x
    ELSE LET d == x.e - y.e
             low == IF d >= 27 THEN 0 ELSE (y.m * 8) \div 2^d
             sticky == IF d >= 27 THEN TRUE ELSE (y.m * 8) % 2^d # 0
         IN  F32Round(x.m * 8 - low - (IF sticky THEN 1 ELSE 0), x.e - 3, sticky)

\* an f32 of either sign: the sign and the magnitude (-0.0 and 0.0, which compare
\* equal, are one value, and so are the NaN of either sign)
Signed(neg, abs) == [neg |-> neg /\ abs.m > 0, abs |-> abs]

\* a + b on f32 of either sign
SignedAdd(a, b) ==
    IF a.neg = b.neg THEN Signed(a.neg, F32Add(a.abs, b.abs))
    ELSE IF F32Less(a.abs, b.abs) THEN Signed(b.neg, F32Sub(b.abs, a.abs))
    ELSE Signed(a.neg, F32Sub(a.abs, b.abs))

Min(a, b) == IF a <= b THEN a ELSE b

Max(a, b) == IF a >= b THEN a ELSE b

\* --------------------------------------------------------------- documents
MkLayer(content, index, parent_index, matte_mode, sf, ef) == [content |-> content, index |-> index, parent_index |-> parent_index, matte_mode |-> matte_mode, start_frame |-> sf, end_frame |-> ef]

PreCompositionRef(r) == [kind |-> "PreCompositionRef", ref_id |-> r, keyframes |-> <<>>]

MediaRef(r) == [kind |-> "MediaRef", ref_id |-> r, keyframes |-> <<>>]

ShapeContent == [kind |-> "Shape", ref_id |-> "", keyframes |-> <<>>]

\* a text layer: the keyframes of text.document.keyframes
TextContent(keyframes) == [kind |-> "Text", ref_id |-> "", keyframes |-> keyframes]

\* a keyframe of a text document: start_value.font_name and start_value.value (the text)
TextKeyframe(font_name, value) == [font_name |-> font_name, value |-> value]

MediaContent(r) == [kind |-> "Media", ref_id |-> r, keyframes |-> <<>>]

\* Layer::new(content, start_frame, end_frame, start_time): no index, no parent, no matte
LayerNew(content, sf, ef) == MkLayer(content, None, None, None, sf, ef)

PrecompositionAsset(id, ls) == [id |-> id, kind |-> "Precomposition", layers |-> ls]

MediaAsset(id) == [id |-> id, kind |-> "Media", layers |-> <<>>]

\* model.assets.iter().find(|asset| asset.id() == ref_id)
RECURSIVE FindAsset(_, _)
FindAsset(assets, ref_id) ==
    IF assets = <<>> THEN None
    ELSE IF Head(assets).id = ref_id THEN Some(Head(assets))
    ELSE FindAsset(Tail(assets), ref_id)

\* model.font(&doc.font_name)
ModelFont(m, name) == IF name \in m.fonts THEN Some(name) ELSE None

\* ------------------------------------------------------ HashMap<u32, _> ops
EmptyMap == [k \in {} |-> 0]

MapGet(m, k) == IF k \in DOMAIN m THEN Some(m[k]) ELSE None

MapInsert(m, k, v) == [x \in (DOMAIN m) \cup {k} |-> IF x = k THEN v ELSE m[x]]

MapRemove(m, k) == [x \in (DOMAIN m) \ {k} |-> m[x]]

\* standby_map.entry(index).or_default().push(id)
MapPush(m, k, v) == MapInsert(m, k, IF k \in DOMAIN m THEN Append(m[k], v) ELSE <<v>>)

\* ------------------------------------------------------------ Timeline::new
TargetLayer == [kind |-> "Layer", ref_id |-> ""]

TargetAsset(r) == [kind |-> "Asset", ref_id |-> r]

\* the queue Timeline::new seeds from model.layers
InitialQueue(m) == [i \in 1..Len(m.layers) |-> [layer |-> m.layers[i], zindex |-> F32FromInt(i - 1), child_index_window |-> One, target_ref |-> TargetLayer, parent |-> None, parent_map |-> 1, standby_map |-> 1, pos |-> i - 1]]

\* step = child_index_window / (asset.layers.len() as f32 + 1.0)
ChildStep(child_index_window, n) == F32Div(child_index_window, F32Add(F32FromInt(n), One))

\* zindex: (index as f32 + 1.0) * step + zindex, index the 0-based position
ChildZindex(index, step, zindex) == F32Add(F32Mul(F32Add(F32FromInt(index), One), step), zindex)

\* mutant of PrecompChildren: the children share the maps of the referencing composition
PrecompChildren_SharedMaps(info, asset, addr) == [i \in 1..Len(asset.layers) |-> [layer |-> asset.layers[i], zindex |-> ChildZindex(i - 1, ChildStep(info.child_index_window, Len(asset.layers)), info.zindex), child_index_window |-> ChildStep(info.child_index_window, Len(asset.layers)), target_ref |-> TargetAsset(info.layer.content.ref_id), parent |-> None, parent_map |-> info.parent_map, standby_map |-> info.standby_map, pos |-> i - 1]]

\* the LayerInfo pushed for each layer of a resolved precomposition asset
PrecompChildren(info, asset, addr) == [i \in 1..Len(asset.layers) |-> [layer |-> asset.layers[i], zindex |-> ChildZindex(i - 1, ChildStep(info.child_index_window, Len(asset.layers)), info.zindex), child_index_window |-> ChildStep(info.child_index_window, Len(asset.layers)), target_ref |-> TargetAsset(info.layer.content.ref_id), parent |-> None, parent_map |-> addr, standby_map |-> addr, pos |-> i - 1]]

\* the single LayerInfo pushed for the body of a resolved media reference
MediaChild(info, addr) == <<[layer |-> LayerNew(MediaContent(info.layer.content.ref_id), info.layer.start_frame, info.layer.end_frame), zindex |-> F32Add(info.zindex, Half), child_index_window |-> Half, target_ref |-> TargetAsset(info.layer.content.ref_id), parent |-> None, parent_map |-> addr, standby_map |-> addr, pos |-> 0]>>

\* the asset a reference layer resolves to: Some(asset) of the right kind, else None
ResolvedAsset(m, content) ==
    LET found == FindAsset(m.assets, content.ref_id)
    IN  IF content.kind = "PreCompositionRef" /\ found # None /\ Unwrap(found).kind = "Precomposition" THEN found
        ELSE IF content.kind = "MediaRef" /\ found # None /\ Unwrap(found).kind = "Media" THEN found
        ELSE None

IsRef(content) == content.kind \in {"PreCompositionRef", "MediaRef"}

\* the `_ => continue` arms of the match on layer.content
Unresolved(m, info) == IsRef(info.layer.content) /\ ResolvedAsset(m, info.layer.content) = None

\* mutant of ExpandedAssets: the last layer of a precomposition asset is not pushed
ExpandedAssets_DropLast(m, info, addr) ==
    IF ~IsRef(info.layer.content) THEN <<>>
    ELSE IF info.layer.content.kind = "PreCompositionRef" THEN SubSeq(PrecompChildren(info, Unwrap(ResolvedAsset(m, info.layer.content)), addr), 1, Len(Unwrap(ResolvedAsset(m, info.layer.content)).layers) - 1)
    ELSE MediaChild(info, addr)

\* the local vector `assets` after the match on layer.content
ExpandedAssets(m, info, addr) ==
    IF ~IsRef(info.layer.content) THEN <<>>
    ELSE IF info.layer.content.kind = "PreCompositionRef" THEN PrecompChildren(info, Unwrap(ResolvedAsset(m, info.layer.content)), addr)
    ELSE MediaChild(info, addr)

\* TextDocumentParser::new on one keyframe: the family in the model, the font in the
\* FontDB, font.load()? and font.measure(..)?
TextDocumentParserNew(keyframe, m, db) ==
    IF ModelFont(m, keyframe.font_name) = None THEN "FontFamilyNotFound"
    ELSE IF db[keyframe.font_name] = "absent" THEN "FontNotLoaded"
    ELSE IF db[keyframe.font_name] = "unloadable" THEN "FontLoadError"
    ELSE IF db[keyframe.font_name] = "unmeasurable" THEN "FontMeasureError"
    ELSE "Ok"

\* TextDocumentParser::shape_layer: the font again, font.load()?, then font.outline(c)
\* for every character of the text (none for the empty text)
ShapeLayer(keyframe, db) ==
    IF db[keyframe.font_name] = "absent" THEN "FontNotLoaded"
    ELSE IF db[keyframe.font_name] = "unloadable" THEN "FontLoadError"
    ELSE IF db[keyframe.font_name] = "glyphless" /\ keyframe.value # "" THEN "FontGlyphNotFound"
    ELSE "Ok"

\* the body of the loop of from_text on one keyframe: new(..)? then shape_layer()?
KeyframeText(keyframe, m, db) ==
    IF TextDocumentParserNew(keyframe, m, db) # "Ok" THEN TextDocumentParserNew(keyframe, m, db)
    ELSE ShapeLayer(keyframe, db)

\* RenderableContent::from_text: keyframe by keyframe, the first error is returned
RECURSIVE FromText(_, _, _)
FromText(keyframes, m, db) ==
    IF keyframes = <<>> THEN "Ok"
    ELSE IF KeyframeText(Head(keyframes), m, db) # "Ok" THEN KeyframeText(Head(keyframes), m, db)
    ELSE FromText(Tail(keyframes), m, db)

\* StagedLayer::new(layer, model, fontdb): Ok(staged) or a text error.  The fields
\* layer, owner, window and pos are history: the source layer, and the parent, the
\* child_index_window and the list position of the LayerInfo it was staged from.
StagedLayerNew(layer, m, db) ==
    IF layer.content.kind = "Text" /\ FromText(layer.content.keyframes, m, db) # "Ok"
    THEN [ok |-> FALSE, err |-> FromText(layer.content.keyframes, m, db)]
    ELSE [ok |-> TRUE, err |-> "", value |-> [id |-> 0, zindex |-> F32(0, 0), parent |-> None, start_frame |-> layer.start_frame, end_frame |-> layer.end_frame, is_mask |-> FALSE, mask_hierarchy |-> <<>>, target |-> TargetLayer, content |-> layer.content.kind, transform_hierarchy |-> <<>>, frame_transform_hierarchy |-> <<>>, layer |-> layer, owner |-> None, window |-> F32(0, 0), pos |-> 0]]

\* the matte linkage: is a mask entry pushed for the layer being staged
HasMatteLink(prev, matte_mode) == prev # None /\ matte_mode # None

\* staged.mask_hierarchy.stack after the matte linkage
LinkedStack(prev, matte_mode) == IF HasMatteLink(prev, matte_mode) THEN <<[id |-> Unwrap(prev), mode |-> Unwrap(matte_mode)]>> ELSE <<>>

\* mutant of MarkMask: the previous layer is not flagged
MarkMask_Skip(st, prev, matte_mode) == st

\* timeline.store after timeline.store.get_mut(id).unwrap().is_mask = true
MarkMask(st, prev, matte_mode) == IF HasMatteLink(prev, matte_mode) THEN [st EXCEPT ![Unwrap(prev)].is_mask = TRUE] ELSE st

\* Timeline::add_item: the frame bounds
AddItemStart(sf, layer_sf) == Min(layer_sf, sf)

AddItemEnd(ef, layer_ef) == Max(layer_ef, ef)

\* parent_map after `if let Some(ind) = index { parent_map.insert(ind, id) }`
ParentMapAfter(pm, index, id) == IF index # None THEN MapInsert(pm, Unwrap(index), id) ELSE pm

\* the parent of the new layer after the lookup of parent_index in parent_map
ParentLookup(pm, parent_index, parent) ==
    IF parent_index # None /\ MapGet(pm, Unwrap(parent_index)) # None THEN MapGet(pm, Unwrap(parent_index)) ELSE parent

\* mutant of StandbyPark: a forward reference is not parked
StandbyPark_Forget(sm, pm, parent_index, id) == sm

\* standby_map after the new layer is parked (parent_index not yet in parent_map)
StandbyPark(sm, pm, parent_index, id) ==
    IF parent_index # None /\ MapGet(pm, Unwrap(parent_index)) = None THEN MapPush(sm, Unwrap(parent_index), id) ELSE sm

\* the ids standby_map.remove(&index) hands to the new layer
StandbyWaiting(sm, index) == IF index # None /\ Unwrap(index) \in DOMAIN sm THEN sm[Unwrap(index)] ELSE <<>>

StandbyDrain(sm, index) == IF index # None THEN MapRemove(sm, Unwrap(index)) ELSE sm

InSeq(x, s) == \E i \in 1..Len(s) : s[i] = x

\* child.parent = Some(id) for every waiting child
AdoptWaiting(st, waiting, id) == [i \in 1..Len(st) |-> IF InSeq(i, waiting) THEN [st[i] EXCEPT !.parent = Some(id)] ELSE st[i]]

\* ------------------------------------------------- the ancestor hierarchies
\* the ids met by `while let Some(parent) = layer.parent`, nearest first, at most fuel of them
RECURSIVE ParentChain(_, _, _)
ParentChain(st, id, fuel) ==
    IF fuel = 0 \/ st[id].parent = None THEN <<>>
    ELSE <<Unwrap(st[id].parent)>> \o ParentChain(st, Unwrap(st[id].parent), fuel - 1)

\* the walk up the parents of some layer never ends (the parent links hold a cycle)
WalkDiverges(st) == \E id \in 1..Len(st) : Len(ParentChain(st, id, Len(st))) = Len(st)

Reverse(s) == [i \in 1..Len(s) |-> s[Len(s) + 1 - i]]

\* Timeline::build_opacity_hierarchy: the stack of transforms, self first (by layer id)
BuildOpacityHierarchy(st) == [i \in 1..Len(st) |-> [st[i] EXCEPT !.transform_hierarchy = <<i>> \o ParentChain(st, i, Len(st))]]

\* Timeline::build_frame_hierarchy: the stack of frame infos, root first (by layer id)
BuildFrameHierarchy(st) == [i \in 1..Len(st) |-> [st[i] EXCEPT !.frame_transform_hierarchy = Reverse(<<i>> \o ParentChain(st, i, Len(st)))]]

\* mask_hierarchy.stack.first() of each layer of a chain, where there is one
RECURSIVE FirstMasks(_, _)
FirstMasks(st, chain) ==
    IF chain = <<>> THEN <<>>
    ELSE (IF st[Head(chain)].mask_hierarchy # <<>> THEN <<Head(st[Head(chain)].mask_hierarchy)>> ELSE <<>>) \o FirstMasks(st, Tail(chain))

\* one iteration of the loop of build_mask_hierarchy, on the store as mutated so far
MaskStep(st, id) ==
    IF st[id].is_mask THEN st
    ELSE [st EXCEPT ![id].mask_hierarchy = FirstMasks(st, <<id>> \o ParentChain(st, id, Len(st)))]

\* Timeline::build_mask_hierarchy: the ids in key order, from id on
RECURSIVE BuildMaskFrom(_, _)
BuildMaskFrom(st, id) == IF id > Len(st) THEN st ELSE BuildMaskFrom(MaskStep(st, id), id + 1)

BuildMaskHierarchy(st) == BuildMaskFrom(st, 1)

\* -------------------------------------------------------- input documents
SeqsUpTo(A, n) == UNION {[1..k -> A] : k \in 1..n}

Plain(content) == MkLayer(content, None, None, None, 0, 10)

Linked(content, index, parent_index) == MkLayer(content, index, parent_index, None, 0, 10)

Matted(content) == MkLayer(content, None, None, Some("Alpha"), 0, 10)

Framed(content, sf, ef) == MkLayer(content, None, None, None, sf, ef)

\* asset "b": a composition of two linked shape layers
BLayers == <<Linked(ShapeContent, Some(1), None), Linked(ShapeContent, None, Some(1))>>

Document(top, alayers) == [layers |-> top, assets |-> <<PrecompositionAsset("a", alayers), PrecompositionAsset("b", BLayers), MediaAsset("m")>>, fonts |-> {"f"}]

\* does a top-level layer reference asset "a" as a precomposition
UsesA(top) == \E i \in 1..Len(top) : top[i].content = PreCompositionRef("a")

\* asset "a" varies only in the documents that read it
DocumentsOver(TopLayers, AssetLayers, nTop, nAsset) == UNION {{Document(top, al) : al \in IF UsesA(top) THEN SeqsUpTo(AssetLayers, nAsset) ELSE {<<Plain(ShapeContent)>>}} : top \in SeqsUpTo(TopLayers, nTop)}

\* reference structure: resolved, missing and wrong-kind references
StructTop == {Plain(ShapeContent), Plain(PreCompositionRef("a")), Plain(PreCompositionRef("m")), Plain(MediaRef("m")), Plain(MediaRef("x"))}

StructAsset == {Plain(ShapeContent), Plain(PreCompositionRef("b")), Plain(PreCompositionRef("x"))}

\* index / parent_index links, forward, backward, dangling, on itself
LinkPairs == {<<None, None>>, <<Some(1), None>>, <<None, Some(1)>>, <<Some(1), Some(1)>>, <<Some(2), Some(1)>>, <<Some(1), Some(2)>>}

LinkTop == {Linked(ShapeContent, p[1], p[2]) : p \in LinkPairs} \cup {Linked(PreCompositionRef("a"), None, None), Linked(PreCompositionRef("a"), Some(1), None)}

LinkAsset == {Linked(ShapeContent, None, None), Linked(ShapeContent, Some(1), None), Linked(ShapeContent, None, Some(1))}

\* matte modes
MatteTop == {Plain(ShapeContent), Matted(ShapeContent), Plain(PreCompositionRef("a")), Matted(PreCompositionRef("a")), Plain(MediaRef("b"))}

MatteAsset == {Plain(ShapeContent), Matted(ShapeContent)}

\* frame spans and text layers
FrameTop == {Framed(ShapeContent, 5, 9), Framed(ShapeContent, 2, 12), Framed(ShapeContent, 0 - 3, 0 - 1), Framed(PreCompositionRef("a"), 5, 9), Framed(TextContent(<<TextKeyframe("f", "ab")>>), 5, 9), Framed(TextContent(<<TextKeyframe("g", "ab")>>), 0, 4)}

FrameAsset == {Framed(ShapeContent, 5, 9), Framed(ShapeContent, 1, 20)}

\* nesting: a matted precomposition over a nested precomposition or a media reference
NestedTop == {Plain(ShapeContent), Matted(PreCompositionRef("a"))}

NestedAsset == {Plain(ShapeContent), Plain(PreCompositionRef("b")), Plain(MediaRef("m"))}

\* text layers: no keyframe, one (with a text or the empty text), and two with the
\* unknown family "g" last or first
TextTop == {Framed(ShapeContent, 5, 9), Framed(TextContent(<<>>), 5, 9), Framed(TextContent(<<TextKeyframe("f", "ab")>>), 5, 9), Framed(TextContent(<<TextKeyframe("f", "")>>), 5, 9), Framed(TextContent(<<TextKeyframe("f", ""), TextKeyframe("g", "ab")>>), 5, 9), Framed(TextContent(<<TextKeyframe("g", "ab"), TextKeyframe("f", "ab")>>), 5, 9)}

TextDocuments == DocumentsOver(TextTop, {Framed(ShapeContent, 5, 9)}, MaxTop, 1)

\* a chain of MaxDepth one-layer compositions, each referencing the next, under the
\* first of two top-level layers
DeepId(k) == "d" \o ToString(k)

DeepAsset(k) == PrecompositionAsset(DeepId(k), <<Plain(IF k < MaxDepth THEN PreCompositionRef(DeepId(k + 1)) ELSE ShapeContent)>>)

DeepDocument == [layers |-> <<Plain(PreCompositionRef(DeepId(1))), Plain(ShapeContent)>>, assets |-> [k \in 1..MaxDepth |-> DeepAsset(k)], fonts |-> {"f"}]

\* every font is in the FontDB and loads, measures and outlines
LoadedFonts == [name \in {"f", "g"} |-> "loaded"]

\* the FontDB: the family "f" is absent, fails to load, to measure or to outline, or works
FontDBs == {[LoadedFonts EXCEPT !["f"] = o] : o \in {"absent", "unloadable", "unmeasurable", "glyphless", "loaded"}}

Documents ==
    DocumentsOver(StructTop, StructAsset, MaxTop, MaxAssetLayers)
    \cup DocumentsOver(LinkTop, LinkAsset, MaxTop, MaxAssetLayers - 1)
    \cup DocumentsOver(MatteTop, MatteAsset, MaxTop, MaxAssetLayers)
    \cup DocumentsOver(FrameTop, FrameAsset, MaxTop, MaxAssetLayers - 1)
    \cup DocumentsOver(NestedTop, NestedAsset, MaxTop, MaxAssetLayers - 1)
    \cup TextDocuments
    \cup {DeepDocument}

\* ----------------------------------------------------------------- actions
TimelineInit ==
    /\ model \in Documents
    /\ fontdb \in (IF model \in TextDocuments THEN FontDBs ELSE {LoadedFonts})
    /\ layers = InitialQueue(model)
    /\ store = <<>>
    /\ start_frame = 0
    /\ end_frame = 0
    /\ previous = None
    /\ parent_maps = <<EmptyMap>>
    /\ standby_maps = <<EmptyMap>>
    /\ pc = "loop"
    /\ skipped = <<>>

\* mutant of SkipUnresolved: an unresolved reference aborts the build (AssetNotFound)
SkipUnresolved_Abort ==
    /\ pc = "loop"
    /\ layers # <<>>
    /\ Unresolved(model, Head(layers))
    /\ pc' = "err"
    /\ UNCHANGED <<model, fontdb, layers, store, start_frame, end_frame, previous, parent_maps, standby_maps, skipped>>
    /\ UNCHANGED <<shape_vars, decoder_vars, call_vars>>

\* a loop iteration that ends in `continue`: the reference does not resolve
SkipUnresolved ==
    /\ pc = "loop"
    /\ layers # <<>>
    /\ Unresolved(model, Head(layers))
    /\ layers' = Tail(layers)
    /\ skipped' = Append(skipped, [owner |-> Head(layers).parent, pos |-> Head(layers).pos])
    /\ UNCHANGED <<model, fontdb, store, start_frame, end_frame, previous, parent_maps, standby_maps, pc>>
    /\ UNCHANGED <<shape_vars, decoder_vars, call_vars>>

\* a loop iteration in which StagedLayer::new fails: `?` returns the error
StageFails ==
    /\ pc = "loop"
    /\ layers # <<>>
    /\ ~Unresolved(model, Head(layers))
    /\ ~StagedLayerNew(Head(layers).layer, model, fontdb).ok
    /\ pc' = "err"
    /\ UNCHANGED <<model, fontdb, layers, store, start_frame, end_frame, previous, parent_maps, standby_maps, skipped>>
    /\ UNCHANGED <<shape_vars, decoder_vars, call_vars>>

\* a loop iteration that stages the layer at the head of the queue
StageLayer ==
    /\ pc = "loop"
    /\ layers # <<>>
    /\ ~Unresolved(model, Head(layers))
    /\ StagedLayerNew(Head(layers).layer, model, fontdb).ok
    /\ LET info == Head(layers)
           layer == info.layer
           fresh == IsRef(layer.content)
           addr == Len(parent_maps) + 1
           assets == ExpandedAssets(model, info, addr)
           id == Len(store) + 1
           pmaps1 == IF fresh THEN Append(parent_maps, EmptyMap) ELSE parent_maps
           smaps1 == IF fresh THEN Append(standby_maps, EmptyMap) ELSE standby_maps
           pm == ParentMapAfter(pmaps1[info.parent_map], layer.index, id)
           sm == StandbyPark(smaps1[info.standby_map], pm, layer.parent_index, id)
           staged == [StagedLayerNew(layer, model, fontdb).value EXCEPT
                          !.id = id,
                          !.target = info.target_ref,
                          !.parent = ParentLookup(pm, layer.parent_index, info.parent),
                          !.zindex = info.zindex,
                          !.mask_hierarchy = LinkedStack(previous, layer.matte_mode),
                          !.owner = info.parent,
                          !.window = info.child_index_window,
                          !.pos = info.pos]
           added == Append(MarkMask(store, previous, layer.matte_mode), staged)
       IN  /\ store' = AdoptWaiting(added, StandbyWaiting(sm, layer.index), id)
           /\ start_frame' = AddItemStart(start_frame, layer.start_frame)
           /\ end_frame' = AddItemEnd(end_frame, layer.end_frame)
           /\ previous' = Some(id)
           /\ layers' = Tail(layers) \o [i \in 1..Len(assets) |-> [assets[i] EXCEPT !.parent = Some(id)]]
           /\ parent_maps' = [pmaps1 EXCEPT ![info.parent_map] = pm]
           /\ standby_maps' = [smaps1 EXCEPT ![info.standby_map] = StandbyDrain(sm, layer.index)]
    /\ UNCHANGED <<model, fontdb, pc, skipped>>
    /\ UNCHANGED <<shape_vars, decoder_vars, call_vars>>

\* the queue has drained: the three hierarchy passes, then Ok(timeline)
BuildHierarchies ==
    /\ pc = "loop"
    /\ layers = <<>>
    /\ ~WalkDiverges(store)
    /\ store' = BuildMaskHierarchy(BuildFrameHierarchy(BuildOpacityHierarchy(store)))
    /\ pc' = "done"
    /\ UNCHANGED <<model, fontdb, layers, start_frame, end_frame, previous, parent_maps, standby_maps, skipped>>
    /\ UNCHANGED <<shape_vars, decoder_vars, call_vars>>

\* the queue has drained, and transform_hierarchy walks a cycle of parents for ever
BuildHangs ==
    /\ pc = "loop"
    /\ layers = <<>>
    /\ WalkDiverges(store)
    /\ pc' = "hang"
    /\ UNCHANGED <<model, fontdb, layers, store, start_frame, end_frame, previous, parent_maps, standby_maps, skipped>>
    /\ UNCHANGED <<shape_vars, decoder_vars, call_vars>>

\* no Timeline::new is running
TimelineIdle ==
    /\ model = [layers |-> <<>>, assets |-> <<>>, fonts |-> {}]
    /\ fontdb = LoadedFonts
    /\ layers = <<>>
    /\ store = <<>>
    /\ start_frame = 0
    /\ end_frame = 0
    /\ previous = None
    /\ parent_maps = <<>>
    /\ standby_maps = <<>>
    /\ pc = "idle"
    /\ skipped = <<>>

\* ------------------------------------------------- StyledShapeIter (shape.rs)
ShapeEntry(kind, hidden) == [shape |-> kind, hidden |-> hidden]

\* ShapeExt::is_style
IsStyle(shape) == shape \in {"Fill", "Stroke", "GradientFill", "GradientStroke"}

\* ShapeExt::is_shape
IsShape(shape) == shape \in {"Rectangle", "Ellipse", "PolyStar", "Path"}

\* ShapeExt::is_group
IsGroup(shape) == shape = "Group"

\* self.shapes[index], index 0-based
ShapeAt(sh, index) == sh[index + 1]

\* the while loop at the head of next(): skip what is neither a shape nor a group
RECURSIVE SkipToShape(_, _, _)
SkipToShape(sh, si, ki) ==
    IF si < Len(sh) /\ ~IsShape(ShapeAt(sh, si).shape) /\ ~IsGroup(ShapeAt(sh, si).shape)
    THEN SkipToShape(sh, si + 1, si + 1)
    ELSE [shape_index |-> si, stroke_index |-> ki]

\* the first for loop: Some(index of the Transform taken), None for Transform::default()
RECURSIVE FindTransform(_, _)
FindTransform(sh, index) ==
    IF index >= Len(sh) THEN None
    ELSE IF ShapeAt(sh, index).shape = "Transform" THEN Some(index)
    ELSE IF IsShape(ShapeAt(sh, index).shape) THEN None
    ELSE FindTransform(sh, index + 1)

\* is the stroke at index the one this call takes
TakesStroke(index, ki, acc) == index > ki /\ acc.stroke = None

\* one pass of the body of the second for loop on a non-hidden style entry
CascadeStyle(shape, index, ki, acc) ==
    IF shape \in {"Fill", "GradientFill"} THEN (IF acc.fill = None THEN [acc EXCEPT !.fill = Some(index)] ELSE acc)
    ELSE [acc EXCEPT !.find_stroke = TRUE,
                     !.stroke = IF TakesStroke(index, ki, acc) THEN Some(index) ELSE @,
                     !.target_stroke_index = IF TakesStroke(index, ki, acc) THEN index ELSE @]

\* the second for loop: fill, stroke, find_stroke and target_stroke_index from index on
RECURSIVE Cascade(_, _, _, _)
Cascade(sh, index, ki, acc) ==
    IF index >= Len(sh) THEN acc
    ELSE IF IsStyle(ShapeAt(sh, index).shape) /\ ~ShapeAt(sh, index).hidden THEN Cascade(sh, index + 1, ki, CascadeStyle(ShapeAt(sh, index).shape, index, ki, acc))
    ELSE IF ShapeAt(sh, index).shape = "Transform" THEN acc
    ELSE Cascade(sh, index + 1, ki, acc)

CascadeStart(ki) == [fill |-> None, stroke |-> None, find_stroke |-> FALSE, target_stroke_index |-> ki]

\* the cursors when an item is returned: the shape is left only if no stroke was seen
CursorAfterEmit(si, acc) ==
    IF ~acc.find_stroke THEN [shape_index |-> si + 1, stroke_index |-> si + 1]
    ELSE [shape_index |-> si, stroke_index |-> acc.target_stroke_index]

\* the StyledShape returned: entries by their 0-based index, fill None for
\* Fill::transparent(), transform None for Transform::default()
StyledShape(si, acc, transform) == [shape |-> si, fill |-> acc.fill, stroke |-> acc.stroke, transform |-> transform]

\* StyledShapeIter::next: the cursors after the call and the Option<StyledShape> returned.
\* `return self.next()` is a call: the locals fill, stroke and transform are dropped
\* after it, so every shape passed over without an item takes one more activation.
\* The stack may run out in an activation (`until` counts them from this one, 0 for
\* none) at one of three places: at its entry, before it has moved a cursor; at the
\* clone of the shape after the while loop, the first of the calls of the two for
\* loops; or at Fill::transparent(), after stroke_index is set.  An activation that
\* does not come to the place goes on.
RECURSIVE IterNext(_, _, _, _, _)
IterNext(sh, si0, ki0, until, place) ==
    LET at == SkipToShape(sh, si0, ki0)
        si == at.shape_index
        acc == Cascade(sh, si + 1, at.stroke_index, CascadeStart(at.stroke_index))
        deeper == IF until > 1 THEN until - 1 ELSE 0
    IN  IF until = 1 /\ place = "entry" THEN [shape_index |-> si0, stroke_index |-> ki0, item |-> None, overflow |-> TRUE]
        ELSE IF si >= Len(sh) THEN [shape_index |-> si, stroke_index |-> at.stroke_index, item |-> None, overflow |-> FALSE]
        ELSE IF until = 1 /\ place = "clone" THEN [shape_index |-> si, stroke_index |-> at.stroke_index, item |-> None, overflow |-> TRUE]
        ELSE IF acc.stroke = None /\ acc.find_stroke THEN IterNext(sh, si + 1, si + 1, deeper, place)
        ELSE IF acc.fill = None /\ acc.stroke = None /\ ~IsGroup(ShapeAt(sh, si).shape) THEN IterNext(sh, si + 1, si + 1, deeper, place)
        ELSE IF until = 1 /\ place = "transparent" /\ acc.fill = None THEN [shape_index |-> si, stroke_index |-> acc.target_stroke_index, item |-> None, overflow |-> TRUE]
        ELSE [shape_index |-> CursorAfterEmit(si, acc).shape_index, stroke_index |-> CursorAfterEmit(si, acc).stroke_index, item |-> Some(StyledShape(si, acc, FindTransform(sh, si + 1))), overflow |-> FALSE]

\* the shape entries the lists are drawn from
ShapeAlphabet == {ShapeEntry("Rectangle", FALSE), ShapeEntry("Group", FALSE), ShapeEntry("Fill", FALSE), ShapeEntry("Fill", TRUE), ShapeEntry("Stroke", FALSE), ShapeEntry("Stroke", TRUE), ShapeEntry("Transform", FALSE)}

\* ShapeGroup::styled_shapes on a shape list; the callers of next() leave room on the
\* stack for 0..MaxFrames whole activations of it, or for more than any list here
\* needs (MaxShapes + 1)
ShapesInit ==
    /\ shapes \in {<<>>} \cup SeqsUpTo(ShapeAlphabet, MaxShapes)
    /\ shape_index = 0
    /\ stroke_index = 0
    /\ emitted = <<>>
    /\ exhausted = FALSE
    /\ frames \in (0..MaxFrames) \cup {MaxShapes + 1}
    /\ overflowed = FALSE

ShapesIdle ==
    /\ shapes = <<>>
    /\ shape_index = 0
    /\ stroke_index = 0
    /\ emitted = <<>>
    /\ exhausted = TRUE
    /\ frames = 1
    /\ overflowed = FALSE

\* a call of next() that returns Some(item): the stack did not run out
NextSome ==
    /\ pc = "idle"
    /\ ~overflowed
    /\ IterNext(shapes, shape_index, stroke_index, 0, "entry").item # None
    /\ shape_index' = IterNext(shapes, shape_index, stroke_index, 0, "entry").shape_index
    /\ stroke_index' = IterNext(shapes, shape_index, stroke_index, 0, "entry").stroke_index
    /\ emitted' = Append(emitted, Unwrap(IterNext(shapes, shape_index, stroke_index, 0, "entry").item))
    /\ exhausted' = FALSE
    /\ UNCHANGED <<shapes, frames, overflowed, timeline_vars, decoder_vars, call_vars>>

\* a call of next() that returns None: the stack did not run out
NextNone ==
    /\ pc = "idle"
    /\ ~overflowed
    /\ IterNext(shapes, shape_index, stroke_index, 0, "entry").item = None
    /\ shape_index' = IterNext(shapes, shape_index, stroke_index, 0, "entry").shape_index
    /\ stroke_index' = IterNext(shapes, shape_index, stroke_index, 0, "entry").stroke_index
    /\ exhausted' = TRUE
    /\ UNCHANGED <<shapes, emitted, frames, overflowed, timeline_vars, decoder_vars, call_vars>>

\* a call of next() in which the stack runs out, in an activation beyond those the
\* caller left room for: the call never returns, the process is aborted with the
\* cursors where that activation had moved them
NextOverflows ==
    /\ pc = "idle"
    /\ ~overflowed
    /\ \E until \in (frames + 1)..(Len(shapes) + 1) : \E place \in {"entry", "clone", "transparent"} :
          /\ IterNext(shapes, shape_index, stroke_index, until, place).overflow
          /\ shape_index' = IterNext(shapes, shape_index, stroke_index, until, place).shape_index
          /\ stroke_index' = IterNext(shapes, shape_index, stroke_index, until, place).stroke_index
    /\ overflowed' = TRUE
    /\ UNCHANGED <<shapes, emitted, exhausted, frames, timeline_vars, decoder_vars, call_vars>>

\* ------------------------------------- impl Deserialize for LayerContent (helpers.rs)
\* value.get("ty").and_then(serde_json::Value::as_u64): Some(n) for a non-negative integer
TyAsU64(value) == IF value.ty # None /\ Unwrap(value.ty) >= 0 THEN value.ty ELSE None

\* a deserializer over a JSON string: where it reads from, whether the string is
\* written with an escape, and the string (or "missing": no string there)
StrDeserializer(source, escaped, sc) == [source |-> source, escaped |-> escaped, sc |-> sc]

\* can the deserializer lend a slice of its input: serde_json does over a &str or a
\* slice when the string has no escape, and over a &Value; over a reader, an owned
\* Value or an escaped string it hands out an owned copy
Lends(d) == (d.source \in {"from_str", "from_slice"} /\ ~d.escaped) \/ d.source = "ref_value"

\* <&str>::deserialize(deserializer): Ok for a lent string only ("invalid type: string,
\* expected a borrowed string" for an owned one)
StrDeserialize(d) == IF d.sc = "missing" \/ ~Lends(d) THEN "Err" ELSE "Ok"

\* str_to_rgba: <&str>::deserialize(..)? then s.parse().unwrap()
StrToRgba(d) ==
    IF StrDeserialize(d) = "Err" THEN "Err"
    ELSE IF d.sc = "unparsable" THEN "panic"
    ELSE "Ok"

\* SolidColor::deserialize(value).unwrap(), value the owned serde_json::Value of line 46
SolidColorDeserialize(value) == IF StrToRgba(StrDeserializer("owned_value", FALSE, value.sc)) = "Ok" THEN [status |-> "Ok", content |-> "SolidColor", shapes |-> ""] ELSE [status |-> "panic", content |-> "", shapes |-> ""]

\* PreCompositionRef::deserialize(value).unwrap()
PreCompositionRefDeserialize(value) == IF value.ref_id = "missing" THEN [status |-> "panic", content |-> "", shapes |-> ""] ELSE [status |-> "Ok", content |-> "Precomposition", shapes |-> ""]

\* the shapes of ty 4: a missing, null or undecodable field gives the empty list
ShapesOrDefault(value) == IF value.shapes = "list" THEN "some" ELSE "empty"

\* the match on ty
LayerContentMatch(value, ty) ==
    IF ty = 0 THEN PreCompositionRefDeserialize(value)
    ELSE IF ty = 1 THEN SolidColorDeserialize(value)
    ELSE IF ty = 3 THEN [status |-> "Ok", content |-> "Empty", shapes |-> ""]
    ELSE IF ty = 4 THEN [status |-> "Ok", content |-> "Shape", shapes |-> ShapesOrDefault(value)]
    ELSE [status |-> "panic", content |-> "", shapes |-> ""]

\* LayerContent::deserialize: Err for input that is no JSON value, else the match on
\* ty (a panic when ty is missing or no u64: the unwrap of None)
LayerContentDeserialize(value) ==
    IF ~value.json THEN [status |-> "Err", content |-> "", shapes |-> ""]
    ELSE IF TyAsU64(value) = None THEN [status |-> "panic", content |-> "", shapes |-> ""]
    ELSE LayerContentMatch(value, Unwrap(TyAsU64(value)))

WireValues == {[json |-> FALSE, ty |-> None, ref_id |-> "missing", sc |-> "missing", shapes |-> "missing"]} \cup [json : {TRUE}, ty : {None} \cup {Some(t) : t \in (0 - 1)..MaxTy}, ref_id : {"a", "missing"}, sc : {"#ff0000", "unparsable", "missing"}, shapes : {"missing", "null", "invalid", "list"}]

Pending == [status |-> "pending", content |-> "", shapes |-> ""]

DecoderInit ==
    /\ wire \in WireValues
    /\ decoded = Pending

DecoderIdle ==
    /\ wire = [json |-> FALSE, ty |-> None, ref_id |-> "missing", sc |-> "missing", shapes |-> "missing"]
    /\ decoded = [status |-> "idle", content |-> "", shapes |-> ""]

\* the decoder returns Ok(content)
DecodeOk ==
    /\ decoded = Pending
    /\ LayerContentDeserialize(wire).status = "Ok"
    /\ decoded' = LayerContentDeserialize(wire)
    /\ UNCHANGED <<wire, timeline_vars, shape_vars, call_vars>>

\* the decoder returns Err to its caller
DecodeErr ==
    /\ decoded = Pending
    /\ LayerContentDeserialize(wire).status = "Err"
    /\ decoded' = LayerContentDeserialize(wire)
    /\ UNCHANGED <<wire, timeline_vars, shape_vars, call_vars>>

\* the decoder panics (an unwrap of None or Err, or the panic! of the last arm)
DecodePanics ==
    /\ decoded = Pending
    /\ LayerContentDeserialize(wire).status = "panic"
    /\ decoded' = LayerContentDeserialize(wire)
    /\ UNCHANGED <<wire, timeline_vars, shape_vars, call_vars>>

\* ------------------------------------------------ codec helpers (helpers.rs)
\* what a call gives back: Ok(value), Err(_) or a panic
Ok(v) == [status |-> "Ok", value |-> v]

Err == [status |-> "Err", value |-> <<>>]

Panic == [status |-> "panic", value |-> <<>>]

\* u8::deserialize on an integer of the wire
U8Deserialize(v) == IF v \in 0..255 THEN Ok(v) ELSE Err

\* mutant of BoolFromInt: every non-zero u8 decodes to true
BoolFromInt_NonZero(v) ==
    IF U8Deserialize(v).status # "Ok" THEN Err
    ELSE IF U8Deserialize(v).value = 0 THEN Ok(FALSE)
    ELSE Ok(TRUE)

\* bool_from_int: u8::deserialize(..)? then the match on 0, 1, other
BoolFromInt(v) ==
    IF U8Deserialize(v).status # "Ok" THEN Err
    ELSE IF U8Deserialize(v).value = 0 THEN Ok(FALSE)
    ELSE IF U8Deserialize(v).value = 1 THEN Ok(TRUE)
    ELSE Err

\* int_from_bool: serialize_u8(if *b { 1 } else { 0 })
IntFromBool(b) == Ok(IF b THEN 1 ELSE 0)

\* str_to_rgba as a call of its own: the status of StrToRgba and the colour parsed
StrToRgbaCall(d) ==
    IF StrToRgba(d) = "Ok" THEN Ok(d.sc)
    ELSE IF StrToRgba(d) = "Err" THEN Err
    ELSE Panic

\* a u32 as two 16-bit halves
U32(hi, lo) == [hi |-> hi, lo |-> lo]

\* `v as u32` on an integer: the low 32 bits of the two's complement
IntAsU32(v) == U32((v \div 65536) % 65536, v % 65536)

\* f32::round / f64::round: to the nearest integer, halves away from zero
Round(n, d) == IF n >= 0 THEN (2 * n + d) \div (2 * d) ELSE 0 - ((2 * (0 - n) + d) \div (2 * d))

\* f64::round of the float hi * 65536 + n / d (hi >= 0)
FloatRound(hi, n, d) == IF hi > 0 THEN (2 * n + d) \div (2 * d) ELSE Round(n, d)

\* `v as u32` on the float hi * 65536 + r that holds an integer: saturating, at 0 and
\* at u32::MAX
FloatAsU32(hi, r) ==
    IF hi + r \div 65536 < 0 THEN U32(0, 0)
    ELSE IF hi + r \div 65536 >= 65536 THEN U32(65535, 65535)
    ELSE U32(hi + r \div 65536, r % 65536)

\* NumberVistor: visit_i64 / visit_u64 / visit_f64 / visit_none, any other wire
\* type is the default visitor error
NumberVistor(v) ==
    IF v.form = "int" THEN Ok(Some(IntAsU32(v.n)))
    ELSE IF v.form = "float" THEN Ok(Some(FloatAsU32(v.hi, FloatRound(v.hi, v.n, v.d))))
    ELSE IF v.form = "none" THEN Ok(None)
    ELSE Err

\* optional_u32_from_number
OptionalU32FromNumber(v) == NumberVistor(v)

\* u32_from_number: deserialize_any(NumberVistor)?.unwrap()
U32FromNumber(v) ==
    IF NumberVistor(v).status # "Ok" THEN Err
    ELSE IF NumberVistor(v).value = None THEN Panic
    ELSE Ok(Unwrap(NumberVistor(v).value))

\* ------------------------------------------- keyframe dual form (helpers.rs)
KeyFrame(value, sf, easing_in, easing_out) == [value |-> value, start_frame |-> sf, easing_in |-> easing_in, easing_out |-> easing_out]

\* enum Value: Primitive(f32), List(Vec<f32>), ComplexBezier(Vec<Bezier>)
Primitive(p) == [kind |-> "Primitive", data |-> <<p>>]

List(l) == [kind |-> "List", data |-> l]

ComplexBezier == [kind |-> "ComplexBezier", data |-> <<>>]

\* Value::as_f32_vec
AsF32Vec(v) == IF v.kind \in {"Primitive", "List"} THEN Some(v.data) ELSE None

\* <f32 as FromTo<Value>>::from: as_f32_vec().unwrap() then v[0]
F32From(v) == IF AsF32Vec(v) = None \/ Unwrap(AsF32Vec(v)) = <<>> THEN Panic ELSE Ok(Unwrap(AsF32Vec(v))[1])

\* enum AnimatedHelper: Plain(Value), AnimatedHelper(Vec<KeyFrame<Value>>)
Plain_(v) == [variant |-> "Plain", plain |-> v, keyframes |-> <<>>]

Animated_(kfs) == [variant |-> "AnimatedHelper", plain |-> ComplexBezier, keyframes |-> kfs]

\* the JSON values of a property: a number, an array of numbers, an array of keyframe
\* objects, anything else
JsonNumber(x) == [json |-> "number", nums |-> <<x>>, keyframes |-> <<>>]

JsonNumbers(l) == [json |-> "numbers", nums |-> l, keyframes |-> <<>>]

JsonKeyframes(kfs) == [json |-> "keyframes", nums |-> <<>>, keyframes |-> kfs]

JsonString == [json |-> "string", nums |-> <<>>, keyframes |-> <<>>]

\* the untagged AnimatedHelper::deserialize: Plain(Value) is tried first
AnimatedHelperDeserialize(w) ==
    IF w.json = "number" THEN Ok(Plain_(Primitive(w.nums[1])))
    ELSE IF w.json = "numbers" THEN Ok(Plain_(List(w.nums)))
    ELSE IF w.json = "keyframes" THEN Ok(Animated_(w.keyframes))
    ELSE Err

\* impl From<AnimatedHelper> for Vec<KeyFrame<T>>, T = f32
KeyframesFromHelper(animated) ==
    IF animated.variant = "Plain"
    THEN (IF F32From(animated.plain).status = "Ok" THEN Ok(<<KeyFrame(F32From(animated.plain).value, None, None, None)>>) ELSE Panic)
    ELSE IF \E i \in 1..Len(animated.keyframes) : F32From(animated.keyframes[i].value).status # "Ok" THEN Panic
    ELSE Ok([i \in 1..Len(animated.keyframes) |-> [animated.keyframes[i] EXCEPT !.value = F32From(animated.keyframes[i].value).value]])

\* keyframes_from_array: AnimatedHelper::deserialize(..).unwrap() then result.into()
KeyframesFromArray(w) ==
    IF AnimatedHelperDeserialize(w).status # "Ok" THEN Panic
    ELSE KeyframesFromHelper(AnimatedHelperDeserialize(w).value)

\* impl From<&Vec<KeyFrame<T>>> for AnimatedHelper: todo!()
AnimatedHelperFrom(b) == Panic

\* the serialization of a Value (untagged)
ValueSerialize(v) == IF v.kind = "Primitive" THEN JsonNumber(v.data[1]) ELSE JsonNumbers(v.data)

\* array_from_keyframes: AnimatedHelper::from(b), then the value or the sequence
ArrayFromKeyframes(b) ==
    IF AnimatedHelperFrom(b).status # "Ok" THEN Panic
    ELSE IF AnimatedHelperFrom(b).value.variant = "Plain" THEN Ok(ValueSerialize(AnimatedHelperFrom(b).value.plain))
    ELSE Ok(JsonKeyframes(AnimatedHelperFrom(b).value.keyframes))

\* ------------------------------------------------ Bezier::to_path (shape.rs)
Bezier(closed, verticies, in_tangent, out_tangent) == [closed |-> closed, verticies |-> verticies, in_tangent |-> in_tangent, out_tangent |-> out_tangent]

\* a Vector2D: x and y are f32
Vector2D(x, y) == <<x, y>>

\* Vector2D + Vector2D: the f32 sum of each coordinate
VecAdd(a, b) == Vector2D(SignedAdd(a[1], b[1]), SignedAdd(a[2], b[2]))

\* the f32 nearest to 1.0e-6, the epsilon of approx_eq on f32
Epsilon == F32(8796093, 0 - 43)

\* approx_eq: (a - b).abs() < epsilon on each coordinate (false on a NaN difference,
\* that of two infinities)
ApproxEq(a, b) == \A k \in 1..2 : F32Less(SignedAdd(a[k], Signed(~b[k].neg, b[k].abs)).abs, Epsilon)

\* Vector2D::zero()
VectorZero == Vector2D(Signed(FALSE, F32(0, 0)), Signed(FALSE, F32(0, 0)))

PathOp(op, pts) == [op |-> op, pts |-> pts, closed |-> FALSE]

PathEnd(closed) == [op |-> "end", pts |-> <<>>, closed |-> closed]

\* the builder call of one pass of the for loop: from p0 to p with tangents c1, c2
Segment(p0, p, c1, c2) ==
    IF ApproxEq(VecAdd(p0, c1), VectorZero) /\ ApproxEq(VecAdd(p, c2), VectorZero) THEN PathOp("line_to", <<p>>)
    ELSE IF ApproxEq(VecAdd(p0, c1), VecAdd(p, c2)) THEN PathOp("quadratic_bezier_to", <<VecAdd(p0, c1), p>>)
    ELSE PathOp("cubic_bezier_to", <<VecAdd(p0, c1), VecAdd(p, c2), p>>)

\* the passes of verticies.skip(1).zip(out_tangent).zip(in_tangent.skip(1))
Segments(b) == [k \in 1..Min(Min(Len(b.verticies) - 1, Len(b.out_tangent)), Max(Len(b.in_tangent) - 1, 0)) |-> Segment(b.verticies[k], b.verticies[k + 1], b.out_tangent[k], b.in_tangent[k + 1])]

\* mutant of ClosingSegment: the closing curve ends at the last vertex
ClosingSegment_ToLast(b) == PathOp("cubic_bezier_to", <<VecAdd(b.verticies[Len(b.verticies)], b.out_tangent[Len(b.verticies)]), VecAdd(b.verticies[1], b.in_tangent[1]), b.verticies[Len(b.verticies)]>>)

\* the cubic_bezier_to of `if self.closed`
ClosingSegment(b) == PathOp("cubic_bezier_to", <<VecAdd(b.verticies[Len(b.verticies)], b.out_tangent[Len(b.verticies)]), VecAdd(b.verticies[1], b.in_tangent[1]), b.verticies[1]>>)

\* Bezier::to_path: the builder calls in order; an index out of the tangent arrays panics
BezierToPath(b) ==
    IF b.verticies = <<>> THEN Ok(<<>>)
    ELSE IF b.closed /\ (Len(b.out_tangent) < Len(b.verticies) \/ b.in_tangent = <<>>) THEN Panic
    ELSE Ok(<<PathOp("begin", <<b.verticies[1]>>)>> \o Segments(b) \o (IF b.closed THEN <<ClosingSegment(b)>> ELSE <<>>) \o <<PathEnd(b.closed)>>)

\* ---------------------------------------------- PolyStar::to_path (shape.rs)
\* self.points.value(frame): the f32 hi * 65536 + n, a whole number; star_type,
\* direction, and has_roundness (both roundness values non-zero); rotation, position
\* and the radii stay symbolic
PolyStar(star_type, points, direction, has_roundness) == [star_type |-> star_type, points |-> points, direction |-> direction, has_roundness |-> has_roundness]

\* the point vec2(cos, sin) * radius + cp at the angle (rotation - 90 degrees) + step *
\* angle_per_point, on the outer or the inner radius
StarPoint(rad, step) == [rad |-> rad, step |-> step]

\* a control point of the cubic at a point: prev - cp1, p + cp2
StarCtrl(which, pt) == [rad |-> which, step |-> pt.step]

\* angle_dir
AngleDir(direction) == IF direction = "Clockwise" THEN 1 ELSE 0 - 1

\* the builder call at the end of one pass of the for loop
StarSegment(s, prev, pt) ==
    IF s.has_roundness THEN PathOp("cubic_bezier_to", <<StarCtrl("cp1", prev), StarCtrl("cp2", pt), pt>>)
    ELSE PathOp("line_to", <<pt>>)

\* `self.points.value(frame) as u32 * 2`: the saturating cast, then a product of two
\* u32.  From 2^31 points on the product overflows: a build with overflow checks
\* panics there (None), a build without keeps its low 32 bits.
NumPoints(points, overflow_checks) ==
    LET u == FloatAsU32(points.hi, points.n)
    IN  IF u.hi >= 32768 /\ overflow_checks THEN None
        ELSE Some(U32((u.hi * 2 + (u.lo * 2) \div 65536) % 65536, (u.lo * 2) % 65536))

\* the for loop over 0..num_points from pass i on: current_ang in units of
\* angle_per_point, long_flag, and the previous point
RECURSIVE StarSegments(_, _, _, _, _, _)
StarSegments(s, num_points, i, current_ang, long_flag, prev) ==
    IF i >= num_points THEN <<>>
    ELSE IF ~long_flag /\ s.star_type = "Polygon" THEN StarSegments(s, num_points, i + 1, current_ang + 1, ~long_flag, prev)
    ELSE <<StarSegment(s, prev, StarPoint(IF long_flag THEN "outer" ELSE "inner", current_ang))>>
         \o StarSegments(s, num_points, i + 1, current_ang + 1, ~long_flag, StarPoint(IF long_flag THEN "outer" ELSE "inner", current_ang))

\* PolyStar::to_path: begin on the outer radius, the passes of the loop, end(true);
\* the panic of the product comes before any builder call
PolyStarToPath(s, overflow_checks) ==
    LET num_points == NumPoints(s.points, overflow_checks)
    IN  IF num_points = None THEN Panic
        ELSE Ok(<<PathOp("begin", <<StarPoint("outer", 0)>>)>>
                \o StarSegments(s, Unwrap(num_points).hi * 65536 + Unwrap(num_points).lo, 0, AngleDir(s.direction), FALSE, StarPoint("outer", 0))
                \o <<PathEnd(TRUE)>>)

\* --------------------------------------------------------- the helper calls
NotReturned == [status |-> "pending", value |-> <<>>]

BoolWire == ((0 - 3)..3) \cup (254..258)

ColorStrings == {"#ff0000", "unparsable", "missing"}

\* the deserializers str_to_rgba is called on
ColorWire == {StrDeserializer(src, esc, sc) : src \in {"from_str", "from_slice", "from_reader", "owned_value", "ref_value"}, esc \in BOOLEAN, sc \in ColorStrings}

\* the numbers of the wire: an integer n, or the float hi * 65536 + n / d
NumberWire ==
    {[form |-> "int", hi |-> 0, n |-> n, d |-> 1] : n \in ((0 - 3)..3) \cup {0 - 2147483647, 0 - 65537, 0 - 65536, 0 - 65535, 65535, 65536, 65537, 2147483647}}
    \cup {[form |-> "float", hi |-> 0, n |-> n, d |-> d] : n \in (0 - 7)..7, d \in {1, 2, 4}}
    \cup {[form |-> "float", hi |-> hi, n |-> n, d |-> d] : hi \in {1, 65535, 65536, 65537}, n \in (0 - 1)..1, d \in {1, 2}}
    \cup {[form |-> "none", hi |-> 0, n |-> 0, d |-> 1], [form |-> "string", hi |-> 0, n |-> 0, d |-> 1]}

\* the keyframes of a Vec<KeyFrame<f32>>
KeyFrames == {KeyFrame(v, sf, e, e) : v \in {1, 2}, sf \in {None, Some(0), Some(5)}, e \in {None, Some(<<1, 1>>)}}

\* the keyframe objects of the wire: KeyFrame<Value>
WireKeyFrames == {KeyFrame(v, sf, None, None) : v \in {Primitive(1), List(<<1, 2>>), List(<<>>)}, sf \in {None, Some(0)}}

PropertyWire ==
    {JsonNumber(x) : x \in {1, 2}}
    \cup {JsonNumbers(l) : l \in {<<>>} \cup SeqsUpTo({1, 2}, MaxKeyframes)}
    \cup {JsonKeyframes(kfs) : kfs \in SeqsUpTo(WireKeyFrames, MaxKeyframes)}
    \cup {JsonString}

\* the f32 of an integer of either sign
Coord(k) == IF k < 0 THEN Signed(TRUE, F32FromInt(0 - k)) ELSE Signed(FALSE, F32FromInt(k))

\* 2^-20, below the epsilon of approx_eq
Tiny == Signed(FALSE, F32(2^23, 0 - 43))

\* the f32 nearest to 3.0e38: twice it is beyond f32::MAX
Huge(neg) == Signed(neg, F32(14791142, 104))

\* the vertices: small ones, one at 2^24, where x + 1.0 rounds back to x, and one
\* that approx_eq takes for zero
Points == {Vector2D(Coord(0), Coord(0)), Vector2D(Coord(1), Coord(0)), Vector2D(Coord(0), Coord(1)), Vector2D(Coord(16777216), Coord(0)), Vector2D(Tiny, Coord(0))}

\* a vertex with its in and out tangent
Verts ==
    {<<v, i, o>> : v \in Points, i \in {VectorZero, Vector2D(Coord(1), Coord(1))}, o \in {VectorZero, Vector2D(Coord(0 - 1), Coord(0))}}
    \cup {<<Vector2D(Huge(FALSE), Coord(0)), i, o>> : i, o \in {VectorZero, Vector2D(Huge(FALSE), Coord(0))}}
    \cup {<<Vector2D(Huge(TRUE), Coord(0)), VectorZero, Vector2D(Huge(TRUE), Coord(0))>>}

BezierOf(closed, vs, drop) == Bezier(closed, [k \in 1..Len(vs) |-> vs[k][1]], [k \in 1..Len(vs) |-> vs[k][2]], [k \in 1..(Len(vs) - drop) |-> vs[k][3]])

\* closed and open Beziers, with an out_tangent array as long as verticies or one shorter
Beziers == {BezierOf(c, vs, d) : c \in BOOLEAN, vs \in {<<>>} \cup SeqsUpTo(Verts, MaxVerts), d \in {0, 1}} \ {BezierOf(c, <<>>, 1) : c \in BOOLEAN}

\* the values of points: 0..MaxPoints and 2^31, where the doubling overflows
PointCounts == {[hi |-> 0, n |-> n] : n \in 0..MaxPoints} \cup {[hi |-> 32768, n |-> 0]}

PolyStars == {PolyStar(t, n, d, r) : t \in {"Star", "Polygon"}, n \in PointCounts, d \in {"Clockwise", "CounterClockwise"}, r \in BOOLEAN}

Calls(op, args) == {[op |-> op, arg |-> a] : a \in args}

CallInit ==
    /\ \/ call \in Calls("bool_from_int", BoolWire)
       \/ call \in Calls("int_from_bool", BOOLEAN)
       \/ call \in Calls("str_to_rgba", ColorWire)
       \/ call \in Calls("u32_from_number", NumberWire)
       \/ call \in Calls("optional_u32_from_number", NumberWire)
       \/ call \in Calls("keyframes_from_array", PropertyWire)
       \/ call \in Calls("array_from_keyframes", SeqsUpTo(KeyFrames, MaxKeyframes))
       \/ call \in Calls("to_path", Beziers)
       \/ call \in Calls("polystar_to_path", PolyStars)
    /\ ret = NotReturned

CallIdle ==
    /\ call = [op |-> "idle", arg |-> <<>>]
    /\ ret = [status |-> "idle", value |-> <<>>]

Returns(op, result) ==
    /\ call.op = op
    /\ ret.status = "pending"
    /\ ret' = result
    /\ UNCHANGED <<call, timeline_vars, shape_vars, decoder_vars>>

CallBoolFromInt == call.op = "bool_from_int" /\ Returns("bool_from_int", BoolFromInt(call.arg))

CallIntFromBool == call.op = "int_from_bool" /\ Returns("int_from_bool", IntFromBool(call.arg))

CallStrToRgba == call.op = "str_to_rgba" /\ Returns("str_to_rgba", StrToRgbaCall(call.arg))

CallU32FromNumber == call.op = "u32_from_number" /\ Returns("u32_from_number", U32FromNumber(call.arg))

CallOptionalU32FromNumber == call.op = "optional_u32_from_number" /\ Returns("optional_u32_from_number", OptionalU32FromNumber(call.arg))

CallKeyframesFromArray == call.op = "keyframes_from_array" /\ Returns("keyframes_from_array", KeyframesFromArray(call.arg))

CallArrayFromKeyframes == call.op = "array_from_keyframes" /\ Returns("array_from_keyframes", ArrayFromKeyframes(call.arg))

CallToPath == call.op = "to_path" /\ Returns("to_path", BezierToPath(call.arg))

\* to_path on a PolyStar, in a build with or without overflow checks
CallPolyStarToPath == call.op = "polystar_to_path" /\ \E overflow_checks \in BOOLEAN : Returns("polystar_to_path", PolyStarToPath(call.arg, overflow_checks))

\* ------------------------------------------------------------ specifications
Init == TimelineInit /\ ShapesIdle /\ DecoderIdle /\ CallIdle

Next == SkipUnresolved \/ StageFails \/ StageLayer \/ BuildHierarchies \/ BuildHangs

Spec == Init /\ [][Next]_vars

ShapesSpecInit == ShapesInit /\ TimelineIdle /\ DecoderIdle /\ CallIdle

ShapesNext == NextSome \/ NextNone \/ NextOverflows

SpecShapes == ShapesSpecInit /\ [][ShapesNext]_vars

DecoderSpecInit == DecoderInit /\ TimelineIdle /\ ShapesIdle /\ CallIdle

DecoderNext == DecodeOk \/ DecodeErr \/ DecodePanics

SpecDecoder == DecoderSpecInit /\ [][DecoderNext]_vars

CallSpecInit == CallInit /\ TimelineIdle /\ ShapesIdle /\ DecoderIdle

CallNext == CallBoolFromInt \/ CallIntFromBool \/ CallStrToRgba \/ CallU32FromNumber \/ CallOptionalU32FromNumber \/ CallKeyframesFromArray \/ CallArrayFromKeyframes \/ CallToPath \/ CallPolyStarToPath

SpecCalls == CallSpecInit /\ [][CallNext]_vars

\* =================================================================== claims
Built == pc = "done"

Ids == 1..Len(store)

SameComposition(i, j) == store[i].owner = store[j].owner

\* the number of layers of the asset a staged precomposition reference expands
ExpandedLen(p) == Len(Unwrap(FindAsset(model.assets, store[p].layer.content.ref_id)).layers)

\* x is z + (i + 1) * w / (n + 1) in f32: the window w / (n + 1) first, as the code does
IsChildZ(x, z, w, i, n) == x = F32Add(z, F32Mul(F32FromInt(i + 1), F32Div(w, F32FromInt(n + 1))))

\* x is w / (n + 1) in f32
IsChildWindow(x, w, n) == x = F32Div(w, F32FromInt(n + 1))

\* C1 as stated: every child of a resolved precomposition layer with z-index z and
\* window w over an asset of n layers is staged with z-index z + (i+1)*w/(n+1) and
\* window w/(n+1), lies strictly inside (z, z+w), siblings of one composition are
\* strictly increasing in z-index in document order, and a top-level layer has
\* z-index = position and window 1.
C1_ZIndexWindow ==
    \A c \in Ids :
        /\ store[c].owner = None => (store[c].zindex = F32FromInt(store[c].pos) /\ store[c].window = One)
        /\ (store[c].owner # None /\ store[Unwrap(store[c].owner)].content = "PreCompositionRef") =>
              LET p == Unwrap(store[c].owner)
              IN  /\ IsChildZ(store[c].zindex, store[p].zindex, store[p].window, store[c].pos, ExpandedLen(p))
                  /\ IsChildWindow(store[c].window, store[p].window, ExpandedLen(p))
                  /\ F32Less(store[p].zindex, store[c].zindex)
                  /\ F32Less(store[c].zindex, F32Add(store[p].zindex, store[p].window))
        /\ \A e \in Ids : (SameComposition(c, e) /\ store[c].pos < store[e].pos) => F32Less(store[c].zindex, store[e].zindex)

\* the only staged layer of its composition that carries its index
UniqueIndex(j) == \A t \in Ids : (SameComposition(t, j) /\ store[t].layer.index = store[j].layer.index) => t = j

\* C2: in a built timeline a staged layer with parent_index = k whose composition holds
\* a staged sibling with index = k (the one sibling with that index) has parent = that
\* sibling's Id, whether the sibling comes before or after it in the layer list.
C2_ParentResolved ==
    Built => \A l \in Ids : \A j \in Ids :
        (/\ SameComposition(l, j)
         /\ store[l].layer.parent_index # None
         /\ store[j].layer.index = store[l].layer.parent_index
         /\ UniqueIndex(j)) => store[l].parent = Some(j)

\* C2 witness: a built timeline with a forward reference resolved through the standby map
C2_Witness ==
    /\ Built
    /\ \E l \in Ids : \E j \in Ids :
        /\ SameComposition(l, j)
        /\ store[l].pos < store[j].pos
        /\ store[l].layer.parent_index # None
        /\ store[j].layer.index = store[l].layer.parent_index
        /\ store[l].parent = Some(j)

\* C3 as stated: in a built timeline every parent was staged from the same composition
C3_NoCrossCompositionParent ==
    Built => \A l \in Ids : store[l].parent # None => SameComposition(Unwrap(store[l].parent), l)

\* C3 amended: in a built timeline a parent is either the reference layer that expanded
\* the layer's composition, or a layer of the same composition whose index is the
\* layer's parent_index; no index of another composition resolves a parent_index.
C3_ParentIsOwnerOrSibling ==
    Built => \A l \in Ids : store[l].parent # None =>
        \/ store[l].parent = store[l].owner
        \/ /\ SameComposition(Unwrap(store[l].parent), l)
           /\ store[l].layer.parent_index # None
           /\ store[Unwrap(store[l].parent)].layer.index = store[l].layer.parent_index

\* C3 witness: a child of an expansion linked to its sibling by an index that a layer
\* of another composition carries as well
C3_Witness ==
    /\ Built
    /\ \E l \in Ids : \E t \in Ids :
        /\ store[l].owner # None
        /\ store[l].parent # None
        /\ store[l].parent # store[l].owner
        /\ ~SameComposition(t, l)
        /\ store[t].layer.index = store[l].layer.parent_index

\* a reference that Timeline::new cannot resolve: no asset with that id, or one of the other kind
Dangling(m, content) ==
    /\ content.kind \in {"PreCompositionRef", "MediaRef"}
    /\ ~\E i \in 1..Len(m.assets) :
          /\ m.assets[i].id = content.ref_id
          /\ m.assets[i].kind = (IF content.kind = "PreCompositionRef" THEN "Precomposition" ELSE "Media")

\* the layers of the asset named ref_id
LayersOf(m, ref_id) == LET i == CHOOSE i \in 1..Len(m.assets) : m.assets[i].id = ref_id IN m.assets[i].layers

\* the number of layers the expansion of a layer list stages: a resolved precomposition
\* reference counts itself and its asset's layers, a resolved media reference itself and
\* the media body, an unresolved reference nothing
RECURSIVE ReachCount(_, _, _)
ReachCount(m, ls, fuel) ==
    IF ls = <<>> \/ fuel = 0 THEN 0
    ELSE (IF Dangling(m, Head(ls).content) THEN 0
          ELSE IF Head(ls).content.kind = "PreCompositionRef" THEN 1 + ReachCount(m, LayersOf(m, Head(ls).content.ref_id), fuel - 1)
          ELSE IF Head(ls).content.kind = "MediaRef" THEN 2
          ELSE 1) + ReachCount(m, Tail(ls), fuel)

\* the document [precomposition of three non-reference layers, one other non-reference layer]
Scenario2 ==
    /\ Len(model.layers) = 2
    /\ model.layers[1].content = PreCompositionRef("a")
    /\ model.layers[2].content.kind = "Shape"
    /\ Len(LayersOf(model, "a")) = 3
    /\ \A i \in 1..3 : LayersOf(model, "a")[i].content.kind = "Shape"

\* C4 as stated: a resolved precomposition reference is not itself staged, and the
\* document of Scenario2 yields exactly 4 staged layers
C4_ReferenceNotStaged ==
    Built => /\ \A i \in Ids : store[i].content # "PreCompositionRef"
             /\ Scenario2 => Len(store) = 4

\* C4 amended: a resolved precomposition reference is expanded and is itself staged;
\* the document of Scenario2 yields 5 staged layers and in general the staged layers are
\* the layers reached by the expansion, every resolved reference layer included (the
\* layer a staged layer was expanded from is always a staged reference layer).
C4_ReferenceStagedToo ==
    Built => /\ Len(store) = ReachCount(model, model.layers, Len(model.assets) + 1)
             /\ Scenario2 => Len(store) = 5
             /\ \A c \in Ids : store[c].owner # None => store[Unwrap(store[c].owner)].content \in {"PreCompositionRef", "MediaRef"}

\* C4 witness: the built timeline of the document of Scenario2
C4_Witness == Built /\ Scenario2 /\ Len(store) = 5

\* C5: the loop iteration on an unresolved reference stages nothing, enqueues nothing,
\* does not fail, and leaves everything the later iterations read (store, previous,
\* maps, frame bounds, the rest of the queue) as it was.
C5_SkipChangesNothing ==
    [][(pc = "loop" /\ layers # <<>> /\ Dangling(model, Head(layers).layer.content)) =>
          /\ layers' = Tail(layers)
          /\ pc' = "loop"
          /\ store' = store
          /\ previous' = previous
          /\ parent_maps' = parent_maps
          /\ standby_maps' = standby_maps
          /\ start_frame' = start_frame
          /\ end_frame' = end_frame]_vars

\* C5 witness: a built timeline with staged layers, one of them staged after the skip
\* of an unresolved reference of its own composition
C5_Witness ==
    /\ Built
    /\ \E i \in 1..Len(skipped) : \E c \in Ids : store[c].owner = skipped[i].owner /\ store[c].pos > skipped[i].pos

\* C6 as stated: Timeline::new does not return Ok while an Id is parked in a standby map
C6_ParentNotFoundReturned ==
    Built => \A a \in 1..Len(standby_maps) : DOMAIN standby_maps[a] = {}

\* C7 as stated: in a built timeline a layer with is_mask = true has an empty mask_hierarchy
C7_MaskNotMasked ==
    Built => \A i \in Ids : store[i].is_mask => store[i].mask_hierarchy = <<>>

\* C8 as stated: in a built timeline with staged layers, start_frame is the least
\* start_frame and end_frame the greatest end_frame of the staged layers
C8_FrameBounds ==
    (Built /\ store # <<>>) =>
        /\ \E i \in Ids : store[i].start_frame = start_frame
        /\ \A i \in Ids : store[i].start_frame >= start_frame
        /\ \E i \in Ids : store[i].end_frame = end_frame
        /\ \A i \in Ids : store[i].end_frame <= end_frame

\* the 0-based index of the first Transform after entry p, Len(shapes) if there is none
TransformAfter(p) == IF \E t \in (p + 1)..(Len(shapes) - 1) : shapes[t + 1].shape = "Transform"
                     THEN CHOOSE t \in (p + 1)..(Len(shapes) - 1) : shapes[t + 1].shape = "Transform" /\ \A u \in (p + 1)..(t - 1) : shapes[u + 1].shape # "Transform"
                     ELSE Len(shapes)

\* the non-hidden entries of the given kinds between entry p and the next Transform
VisibleStyles(p, kinds) == {i \in (p + 1)..(TransformAfter(p) - 1) : shapes[i + 1].shape \in kinds /\ ~shapes[i + 1].hidden}

\* the j-th smallest member of a set of indices
Nth(S, j) == CHOOSE k \in S : Cardinality({x \in S : x < k}) = j - 1

\* the items emitted for the shape at entry p, in order
ItemShapeIs(p, item) == item.shape = p

ItemsOf(p) == SelectSeq(emitted, LAMBDA item : ItemShapeIs(p, item))

Scenario4 == <<ShapeEntry("Rectangle", FALSE), ShapeEntry("Fill", FALSE), ShapeEntry("Stroke", FALSE), ShapeEntry("Stroke", FALSE), ShapeEntry("Transform", FALSE)>>

\* C9 as stated: once the iteration over styled_shapes() is over (None was returned, or
\* the process was aborted), a primitive followed before the next Transform by exactly
\* one non-hidden fill and N >= 1 non-hidden strokes has yielded exactly N items, the
\* j-th with the j-th stroke in list order, all with that fill and one same transform;
\* [Rect, Fill, Stroke, Stroke, Transform] yields (Rect, fill, first stroke, T) then
\* (Rect, fill, second stroke, T) and nothing else.
C9_OneItemPerStroke ==
    (exhausted \/ overflowed) =>
        /\ \A p \in 0..(Len(shapes) - 1) :
              (/\ IsShape(shapes[p + 1].shape)
               /\ Cardinality(VisibleStyles(p, {"Fill", "GradientFill"})) = 1
               /\ Cardinality(VisibleStyles(p, {"Stroke", "GradientStroke"})) >= 1) =>
                  /\ Len(ItemsOf(p)) = Cardinality(VisibleStyles(p, {"Stroke", "GradientStroke"}))
                  /\ \A j \in 1..Len(ItemsOf(p)) :
                        /\ ItemsOf(p)[j].stroke = Some(Nth(VisibleStyles(p, {"Stroke", "GradientStroke"}), j))
                        /\ ItemsOf(p)[j].fill = Some(Nth(VisibleStyles(p, {"Fill", "GradientFill"}), 1))
                        /\ ItemsOf(p)[j].transform = ItemsOf(p)[1].transform
        /\ shapes = Scenario4 => emitted = <<[shape |-> 0, fill |-> Some(1), stroke |-> Some(2), transform |-> Some(4)], [shape |-> 0, fill |-> Some(1), stroke |-> Some(3), transform |-> Some(4)]>>

\* the layer content each ty from 0 to 5 stands for
ContentOfTy(t) == <<"Precomposition", "SolidColor", "MediaRef", "Empty", "Shape", "Text">>[t + 1]

\* C10 as stated: the decoder is a total dispatch on ty: on a well-formed layer object
\* ty 0..5 decode to their six contents and every other ty returns an error to the
\* caller (no panic)
C10_TotalDispatch ==
    (/\ decoded.status \in {"Ok", "Err", "panic"}
     /\ wire.json
     /\ wire.ty # None
     /\ wire.ref_id # "missing"
     /\ wire.sc = "#ff0000") =>
        /\ Unwrap(wire.ty) \in 0..5 => (decoded.status = "Ok" /\ decoded.content = ContentOfTy(Unwrap(wire.ty)))
        /\ Unwrap(wire.ty) \notin 0..5 => decoded.status = "Err"

Returned(op) == call.op = op /\ ret.status \in {"Ok", "Err", "panic"}

\* C11 as stated: str_to_rgba on a string that does not parse as a colour returns an
\* error to its caller, and on a string that parses returns the parsed Rgba
C11_InvalidColor ==
    Returned("str_to_rgba") =>
        /\ call.arg.sc = "unparsable" => ret.status = "Err"
        /\ call.arg.sc = "#ff0000" => (ret.status = "Ok" /\ ret.value = "#ff0000")

\* C12: bool_from_int gives false for 0, true for 1 and an error for every other
\* integer; int_from_bool emits 1 for true and 0 for false; decoding what the encoder
\* emitted gives the boolean back.
C12_BoolCodec ==
    /\ Returned("bool_from_int") =>
          /\ call.arg = 0 => (ret.status = "Ok" /\ ret.value = FALSE)
          /\ call.arg = 1 => (ret.status = "Ok" /\ ret.value = TRUE)
          /\ call.arg \notin {0, 1} => ret.status = "Err"
    /\ Returned("int_from_bool") =>
          /\ ret.status = "Ok"
          /\ ret.value = (IF call.arg THEN 1 ELSE 0)
          /\ BoolFromInt(ret.value).status = "Ok"
          /\ BoolFromInt(ret.value).value = call.arg

\* C12 witness: bool_from_int has rejected a u8 other than 0 and 1
C12_Witness == Returned("bool_from_int") /\ call.arg = 2 /\ ret.status = "Err"

\* the call returned Ok(u), or Ok(Some(u)) from the optional decoder
ReturnedU32(u) == ret.status = "Ok" /\ (IF call.op = "u32_from_number" THEN ret.value = u ELSE ret.value = Some(u))

\* C13 as stated: the lenient number decoder gives 0 for every negative wire number,
\* integer or float, and gives every integer of [0, 2^32 - 1] back as it is
C13_NegativeClampsToZero ==
    (Returned("u32_from_number") \/ Returned("optional_u32_from_number")) =>
        /\ (call.arg.form \in {"int", "float"} /\ call.arg.hi = 0 /\ call.arg.n < 0) => ReturnedU32(U32(0, 0))
        /\ (call.arg.form = "int" /\ call.arg.n >= 0) => ReturnedU32(U32(call.arg.n \div 65536, call.arg.n % 65536))

\* a keyframe with no start frame and no easing
IsStatic(k) == k.start_frame = None /\ k.easing_in = None /\ k.easing_out = None

\* the call returned Ok(w), w of the given JSON form, and w decodes back to the list b
EncodesBackTo(form, b) ==
    /\ ret.status = "Ok"
    /\ ret.value.json = form
    /\ KeyframesFromArray(ret.value).status = "Ok"
    /\ KeyframesFromArray(ret.value).value = b

\* C14 as stated: array_from_keyframes encodes a list of one keyframe with no start
\* frame and no easing as the bare value and a list of several keyframes as the array
\* form, and keyframes_from_array gives the same list back from either
C14_KeyframeRoundTrip ==
    Returned("array_from_keyframes") =>
        /\ (Len(call.arg) = 1 /\ IsStatic(call.arg[1])) => EncodesBackTo("number", call.arg)
        /\ Len(call.arg) > 1 => EncodesBackTo("keyframes", call.arg)

\* the last point of a builder call
EndPoint(o) == o.pts[Len(o.pts)]

\* C15: for a closed Bezier with at least one vertex and tangent arrays as long as the
\* vertex array, the builder calls of to_path start with begin(v0), end with end(true),
\* and the last segment call before end(true) ends at v0.
C15_ClosedPathReturns ==
    (/\ Returned("to_path")
     /\ call.arg.closed
     /\ Len(call.arg.verticies) >= 1
     /\ Len(call.arg.in_tangent) = Len(call.arg.verticies)
     /\ Len(call.arg.out_tangent) = Len(call.arg.verticies)) =>
        /\ ret.status = "Ok"
        /\ Len(ret.value) >= 3
        /\ ret.value[1] = PathOp("begin", <<call.arg.verticies[1]>>)
        /\ ret.value[Len(ret.value)] = PathEnd(TRUE)
        /\ ret.value[Len(ret.value) - 1].op \in {"line_to", "quadratic_bezier_to", "cubic_bezier_to"}
        /\ EndPoint(ret.value[Len(ret.value) - 1]) = call.arg.verticies[1]
        /\ \A k \in 2..(Len(ret.value) - 1) : ret.value[k].op \in {"line_to", "quadratic_bezier_to", "cubic_bezier_to"}

\* C15 witness: to_path has returned on a closed Bezier of two distinct vertices with
\* a line, a quadratic or cubic segment and the closing curve
C15_Witness ==
    /\ Returned("to_path")
    /\ call.arg.closed
    /\ Len(call.arg.verticies) = 2
    /\ Len(call.arg.out_tangent) = 2
    /\ call.arg.verticies[1] # call.arg.verticies[2]
    /\ ret.status = "Ok"
    /\ Len(ret.value) = 4
    /\ ret.value[2].op = "line_to"

\* C16: whenever a layer carrying a matte mode m is staged and a layer was staged
\* before it, the layer inserted last gets is_mask = true and the new layer's mask
\* stack is the one entry (that layer's id, m); a layer without a matte mode changes
\* no is_mask flag and gets no mask entry.
C16_MatteLinkage ==
    [][Len(store') = Len(store) + 1 =>
          LET new == store'[Len(store')]
              m == new.layer.matte_mode
          IN  /\ (m # None /\ store # <<>>) =>
                    /\ previous = Some(Len(store))
                    /\ store'[Len(store)].is_mask
                    /\ new.mask_hierarchy = <<[id |-> Len(store), mode |-> Unwrap(m)]>>
                    /\ \A i \in 1..(Len(store) - 1) : store'[i].is_mask = store[i].is_mask
              /\ m = None =>
                    /\ \A i \in 1..Len(store) : store'[i].is_mask = store[i].is_mask
                    /\ new.mask_hierarchy = <<>>
              /\ ~new.is_mask]_vars

\* C16 witness: a layer with a matte mode staged right after a layer of another
\* composition, which is now a mask
C16_Witness ==
    /\ pc = "loop"
    /\ \E i \in 2..Len(store) :
          /\ store[i].layer.matte_mode # None
          /\ store[i].owner # store[i - 1].owner
          /\ store[i - 1].is_mask
          /\ store[i].mask_hierarchy = <<[id |-> i - 1, mode |-> Unwrap(store[i].layer.matte_mode)]>>

\* the matte entries the matte linkage gave to the layers of a chain, one per layer at most
RECURSIVE OwnEntries(_)
OwnEntries(chain) ==
    IF chain = <<>> THEN <<>>
    ELSE LinkedStack(IF Head(chain) > 1 THEN Some(Head(chain) - 1) ELSE None, store[Head(chain)].layer.matte_mode) \o OwnEntries(Tail(chain))

\* C17 as stated: in a built timeline the mask_hierarchy of a layer that is not a mask
\* is its own matte entry followed by the own matte entry of each ancestor, nearest
\* first, each entry once
C17_MaskHierarchy ==
    Built => \A i \in Ids : ~store[i].is_mask => store[i].mask_hierarchy = OwnEntries(<<i>> \o ParentChain(store, i, Len(store)))

\* C20 as stated: the body of a resolved media reference staged with z-index z and
\* window w is its one child, with window w/2 and a z-index strictly inside (z, z+w)
C20_MediaChildWindow ==
    \A c \in Ids : (store[c].owner # None /\ store[Unwrap(store[c].owner)].content = "MediaRef") =>
        LET p == Unwrap(store[c].owner)
        IN  /\ store[c].content = "Media"
            /\ \A e \in Ids : store[e].owner = Some(p) => e = c
            /\ IsChildWindow(store[c].window, store[p].window, 1)
            /\ F32Less(store[p].zindex, store[c].zindex)
            /\ F32Less(store[c].zindex, F32Add(store[p].zindex, store[p].window))

\* C18 as stated: the transform of every emitted item is the first Transform entry after
\* its shape, whatever lies between (the default transform if there is none), and its
\* fill and stroke come from entries before that Transform
C18_TransformSelection ==
    \A k \in 1..Len(emitted) :
        LET item == emitted[k]
            t == TransformAfter(item.shape)
        IN  /\ item.transform = (IF t < Len(shapes) THEN Some(t) ELSE None)
            /\ item.fill # None => (item.shape < Unwrap(item.fill) /\ Unwrap(item.fill) < t)
            /\ item.stroke # None => (item.shape < Unwrap(item.stroke) /\ Unwrap(item.stroke) < t)

Fills == {"Fill", "GradientFill"}

Strokes == {"Stroke", "GradientStroke"}

\* C19 as stated: once the iteration over styled_shapes() is over (None was returned,
\* or the process was aborted), with hidden fills and strokes counting as absent: a
\* primitive with no fill and no stroke in its cascade has yielded nothing; a group
\* with none has yielded exactly one item, with no stroke and the transparent fill; a
\* shape or group with a fill and no stroke has yielded exactly one item, with the
\* first visible fill and no stroke.
C19_HiddenAndGroups ==
    (exhausted \/ overflowed) => \A p \in 0..(Len(shapes) - 1) :
        /\ (IsShape(shapes[p + 1].shape) /\ VisibleStyles(p, Fills) = {} /\ VisibleStyles(p, Strokes) = {}) => ItemsOf(p) = <<>>
        /\ (IsGroup(shapes[p + 1].shape) /\ VisibleStyles(p, Fills) = {} /\ VisibleStyles(p, Strokes) = {}) =>
              (Len(ItemsOf(p)) = 1 /\ ItemsOf(p)[1].stroke = None /\ ItemsOf(p)[1].fill = None)
        /\ ((IsShape(shapes[p + 1].shape) \/ IsGroup(shapes[p + 1].shape)) /\ VisibleStyles(p, Fills) # {} /\ VisibleStyles(p, Strokes) = {}) =>
              (Len(ItemsOf(p)) = 1 /\ ItemsOf(p)[1].stroke = None /\ ItemsOf(p)[1].fill = Some(Nth(VisibleStyles(p, Fills), 1)))

\* is the end point of a builder call on the given radius at the angle start + k *
\* (360 / (2 * points)) degrees, up to whole turns
EndsAt(o, rad, k, points) == EndPoint(o).rad = rad /\ (EndPoint(o).step - k) % (2 * points) = 0

\* C21 as stated: PolyStar::to_path emits begin on the outer radius at rotation - 90
\* degrees, then for a Star 2p segments, the k-th ending at the angle start + k * dir *
\* (360/(2p)) on the inner radius for odd k and the outer radius for even k (dir = +1
\* clockwise, -1 counter-clockwise; line segments when there is no roundness), for a
\* Polygon the p segments of the even steps, then end(true).  (No path returned here
\* has 2^16 segments, so with p from 2^16 on the counts are unequal.)
C21_PolyStarVertices ==
    Returned("polystar_to_path") =>
        LET s == call.arg
            p == s.points.n
            dir == IF s.direction = "Clockwise" THEN 1 ELSE 0 - 1
            ops == ret.value
        IN  /\ ret.status = "Ok"
            /\ ops[1] = PathOp("begin", <<StarPoint("outer", 0)>>)
            /\ ops[Len(ops)] = PathEnd(TRUE)
            /\ s.points.hi = 0
            /\ s.star_type = "Star" =>
                  /\ Len(ops) = 2 * p + 2
                  /\ \A k \in 1..(2 * p) : EndsAt(ops[k + 1], IF k % 2 = 1 THEN "inner" ELSE "outer", k * dir, p)
            /\ s.star_type = "Polygon" =>
                  /\ Len(ops) = p + 2
                  /\ \A j \in 1..p : EndsAt(ops[j + 1], "outer", 2 * j * dir, p)
            /\ ~s.has_roundness => \A k \in 2..(Len(ops) - 1) : ops[k].op = "line_to"

\* C22 as stated: Timeline::new terminates: once the queue has drained the walks up the
\* parents all finish, that is the parent relation of the staged layers has no cycle
C22_Terminates ==
    /\ pc # "hang"
    /\ (layers = <<>> /\ pc \in {"loop", "done"}) => \A id \in Ids : Len(ParentChain(store, id, Len(store))) < Len(store)

\* C23 as stated: every call of next() returns: with an item, and then it strictly
\* increases the pair (shape_index, stroke_index) in lexicographic order, within 0..len,
\* so None is reached after at most (len + 1)^2 emissions; or with None. The item's
\* shape is a primitive or a group, not before the shape of the item emitted last; and
\* once None is returned every later call returns None and changes nothing.
C23_IteratorTerminates ==
    [][/\ ~overflowed'
       /\ shape_index' \in 0..Len(shapes) /\ stroke_index' \in 0..Len(shapes)
       /\ emitted' # emitted =>
             /\ ~exhausted /\ ~exhausted'
             /\ Len(emitted') = Len(emitted) + 1
             /\ \/ shape_index' > shape_index
                \/ shape_index' = shape_index /\ stroke_index' > stroke_index
             /\ LET item == emitted'[Len(emitted')]
                IN  /\ item.shape \in 0..(Len(shapes) - 1)
                    /\ IsShape(shapes[item.shape + 1].shape) \/ IsGroup(shapes[item.shape + 1].shape)
                    /\ emitted # <<>> => emitted[Len(emitted)].shape <= item.shape
       /\ emitted' = emitted => (shape_index' >= shape_index /\ exhausted')
       /\ exhausted => (exhausted' /\ emitted' = emitted /\ shape_index' = shape_index /\ stroke_index' = stroke_index)]_vars

\* C24 as stated: every mask entry the matte linkage places on a layer names the layer
\* right before it in the layer list of its own composition
C24_MaskIsPrecedingSibling ==
    pc = "loop" => \A i \in Ids : \A k \in 1..Len(store[i].mask_hierarchy) :
        /\ SameComposition(store[i].mask_hierarchy[k].id, i)
        /\ store[store[i].mask_hierarchy[k].id].pos + 1 = store[i].pos

====
